---- MODULE Spec2Model ----
(***************************************************************************)
(* A model of admin_auto_filters_multi/filters.py: the AutocompleteFilter  *)
(* list filter, its metaclass, and AutocompleteFilterFactory.              *)
(*                                                                         *)
(* Python strings are sequences of one-character strings, so that          *)
(* substring tests, suffix tests, replace(), split() and title() are       *)
(* computed as Python computes them.  A dict of class attributes is a      *)
(* function from attribute names to values.                                *)
(***************************************************************************)
EXTENDS Integers, Sequences, FiniteSets, TLC

VARIABLES
    cls,          \* the filter class object most recently created / in use
    result,       \* outcome of the last call (class statement, factory, __init__, queryset)
    warnings,     \* number of DeprecationWarnings raised so far
    model_admin,  \* the ModelAdmin class of the page: its Media declaration
    inst,         \* the filter instance of the request in progress
    request,      \* the request in progress: its GET parameters
    params,       \* the changelist's lookup parameters, which filters pop from
    declared      \* history: asset paths declared by the sources merged so far

vars == <<cls, result, warnings, model_admin, inst, request, params, declared>>

-----------------------------------------------------------------------------
(* Bounds *)

MaxHops == 1          \* relation hops in a generated field path
MaxWarnings == 2      \* DeprecationWarnings counted before the model stops calling

-----------------------------------------------------------------------------
(* Python str *)

None == <<"None">>            \* the None object, where a str is expected
LOOKUP_SEP == <<"_", "_">>

Concat(ss) ==
    LET RECURSIVE cat(_)
        cat(i) == IF i > Len(ss) THEN <<>> ELSE ss[i] \o cat(i + 1)
    IN cat(1)

\* s[i:].startswith(sub)
StartsWithAt(s, i, sub) ==
    /\ i + Len(sub) - 1 <= Len(s)
    /\ \A k \in 1..Len(sub) : s[i + k - 1] = sub[k]

\* sub in s
Contains(s, sub) == \E i \in 1..(Len(s) + 1) : StartsWithAt(s, i, sub)

\* s.endswith(suf)
EndsWith(s, suf) ==
    /\ Len(suf) <= Len(s)
    /\ StartsWithAt(s, Len(s) - Len(suf) + 1, suf)

\* s.replace(old, new): leftmost, non-overlapping occurrences (old non-empty)
Replace(s, old, new) ==
    LET RECURSIVE rep(_)
        rep(i) == IF i > Len(s) THEN <<>>
                  ELSE IF StartsWithAt(s, i, old) THEN new \o rep(i + Len(old))
                  ELSE <<s[i]>> \o rep(i + 1)
    IN rep(1)

\* s.split(sep): the list of pieces, [''] for the empty string (sep non-empty)
Split(s, sep) ==
    LET RECURSIVE sp(_, _)
        sp(i, cur) == IF i > Len(s) THEN <<cur>>
                      ELSE IF StartsWithAt(s, i, sep) THEN <<cur>> \o sp(i + Len(sep), <<>>)
                      ELSE sp(i + 1, Append(cur, s[i]))
    IN sp(1, <<>>)

Lowers == <<"a", "b", "c", "d", "e", "f", "i", "k", "l", "n", "p", "q", "s", "t">>
Uppers == <<"A", "B", "C", "D", "E", "F", "I", "K", "L", "N", "P", "Q", "S", "T">>

IsCased(ch) == \E i \in 1..Len(Lowers) : ch = Lowers[i] \/ ch = Uppers[i]
Upper(ch) == IF \E i \in 1..Len(Lowers) : ch = Lowers[i]
             THEN Uppers[CHOOSE i \in 1..Len(Lowers) : ch = Lowers[i]] ELSE ch
Lower(ch) == IF \E i \in 1..Len(Uppers) : ch = Uppers[i]
             THEN Lowers[CHOOSE i \in 1..Len(Uppers) : ch = Uppers[i]] ELSE ch

\* s.title(): a cased character is upper-cased after an uncased one (or at
\* the start) and lower-cased after a cased one
TitleCase(s) ==
    [i \in 1..Len(s) |->
        IF i > 1 /\ IsCased(s[i - 1]) THEN Lower(s[i]) ELSE Upper(s[i])]

-----------------------------------------------------------------------------
(* Class attributes of AutocompleteFilter *)

Unset == <<"Unset">>          \* marks an attribute a class body leaves out

S_pk == <<"p", "k">>
S_id == <<"i", "d">>
S_in == <<"i", "n">>
S_exact == <<"e", "x", "a", "c", "t">>
S_isnull == <<"i", "s", "n", "u", "l", "l">>

\* class Media of AutocompleteFilter: js, and css by medium
Mediums == {"screen", "all"}
NoCss == [m \in Mediums |-> <<>>]
AutocompleteFilterMedia ==
    [js  |-> <<"admin/js/jquery.init.js",
               "django-admin-autocomplete-filter/js/autocomplete_filter_qs.js">>,
     css |-> [NoCss EXCEPT !["screen"] =
                 <<"django-admin-autocomplete-filter/css/autocomplete-fix.css">>]]

\* The class namespace of AutocompleteFilter as attribute lookup sees it
\* (parameter_name and title are inherited from SimpleListFilter as None;
\* the metaclass leaves them alone because field_name is None).
AutocompleteFilterAttrs ==
    [field_name           |-> None,
     field_pk             |-> S_pk,
     form_widget          |-> None,
     is_placeholder_title |-> FALSE,
     multi_select         |-> FALSE,
     parameter_name       |-> None,
     title                |-> None,
     use_pk_exact         |-> TRUE,
     view_name            |-> None,
     widget_attrs         |-> {},
     Media                |-> AutocompleteFilterMedia]

\* A class object: its attributes as lookup resolves them, which of
\* parameter_name/title a class body below AutocompleteFilter has set, and
\* whether AutocompleteFilter is its immediate base.
AutocompleteFilter ==
    [attrs |-> AutocompleteFilterAttrs, explicit |-> {}, direct |-> FALSE, configured |-> FALSE]

\* A faulty variant: the suffix of the multi-select, non-exact case formatted with field_pk
get_query_parameter_formatted(c) ==
    IF c.multi_select
    THEN c.field_name \o LOOKUP_SEP \o c.field_pk \o LOOKUP_SEP \o S_in
    ELSE IF c.use_pk_exact
         THEN c.field_name \o LOOKUP_SEP \o c.field_pk \o LOOKUP_SEP \o S_exact
         ELSE c.field_name

\* get_query_parameter: field_name plus the lookup suffix of the flags
get_query_parameter(c) ==
    IF c.multi_select
    THEN IF c.use_pk_exact
         THEN c.field_name \o LOOKUP_SEP \o c.field_pk \o LOOKUP_SEP \o S_in
         ELSE c.field_name \o LOOKUP_SEP \o S_in
    ELSE IF c.use_pk_exact
         THEN c.field_name \o LOOKUP_SEP \o c.field_pk \o LOOKUP_SEP \o S_exact
         ELSE c.field_name

\* get_parameter_name
get_parameter_name(c) ==
    IF c.parameter_name = None
    THEN IF ~Contains(c.field_name, LOOKUP_SEP)
         THEN get_query_parameter(c)
         ELSE c.field_name
    ELSE c.parameter_name

\* get_title
get_title(c) ==
    IF c.title = None
    THEN TitleCase(Replace(Replace(c.field_name, LOOKUP_SEP, <<" ", "-", " ">>),
                           <<"_">>, <<" ">>))
    ELSE c.title

\* get_ultimate_field_name
get_ultimate_field_name(c) ==
    LET names == Split(c.field_name, LOOKUP_SEP) IN names[Len(names)]

\* type.__init__ then AutocompleteFilterMeta.__init__: the namespace of a
\* class with base `parent` and class body `body` (a dict), and the two
\* defaults written into it when field_name is not None.
AutocompleteFilterMeta(parent, body) ==
    LET d == [k \in DOMAIN parent.attrs \cup DOMAIN body |->
                 IF k \in DOMAIN body THEN body[k] ELSE parent.attrs[k]]
        d1 == IF d.field_name # None
              THEN [d EXCEPT !.parameter_name = get_parameter_name(d)]
              ELSE d
        d2 == IF d.field_name # None
              THEN [d1 EXCEPT !.title = get_title(d1)]
              ELSE d1
    IN [attrs      |-> d2,
        explicit   |-> (parent.explicit \ DOMAIN body) \cup
                       {k \in DOMAIN body \cap {"parameter_name", "title"} : body[k] # None},
        direct     |-> parent = AutocompleteFilter,
        configured |-> TRUE]

-----------------------------------------------------------------------------
(* Inputs: class bodies and keyword arguments *)

\* A body or a **kwargs is drawn as a record of choices, one per name, and
\* turned into the dict of the names that are given.
StrKeys == {"field_name", "field_pk", "parameter_name", "title", "view_name",
            "form_widget", "viewname", "bogus", "rel_model"}
BoolKeys == {"multi_select", "use_pk_exact", "is_placeholder_title"}

IsGiven(k, v) == IF k \in StrKeys THEN v # Unset ELSE v # "unset"

OwnMedia ==
    [js  |-> <<"own.js", "admin/js/jquery.init.js">>,
     css |-> [NoCss EXCEPT !["all"] =
                 <<"django-admin-autocomplete-filter/css/autocomplete-fix.css", "own.css">>]]

ValueOf(k, v) ==
    IF k \in StrKeys THEN v
    ELSE IF k \in BoolKeys THEN v = "True"
    ELSE IF k = "widget_attrs" THEN {<<"class", <<"x">>>>}
    ELSE OwnMedia

Dict(choice) ==
    [k \in {n \in DOMAIN choice : IsGiven(n, choice[n])} |-> ValueOf(k, choice[k])]

\* first hop .. last hop of the longest generated path
Hops == <<(<<"a">>), (<<"b", "_", "c">>), (<<"d">>), (<<"a">>)>>

Path(n) ==
    LET RECURSIVE join(_)
        join(i) == IF i = 1 THEN Hops[1] ELSE join(i - 1) \o LOOKUP_SEP \o Hops[i]
    IN join(n + 1)

FieldPaths == {Path(n) : n \in 0..MaxHops}
FieldNames == FieldPaths \cup {<<>>, None}

-----------------------------------------------------------------------------
(* AutocompleteFilterFactory *)

\* dir(AutocompleteFilter): the callables and the dunder names among it
Callables == {"Media", "check_field_name", "get_parameter_name", "get_query_parameter",
              "get_title", "get_ultimate_field_name", "get_rel_model", "get_attrs",
              "get_widget", "get_field", "queryset", "value", "prepare_value",
              "render_widget", "lookups", "has_output", "choices"}
Dunders == {"__init__", "__doc__", "__module__", "__dict__", "__class__"}
ClassDir == DOMAIN AutocompleteFilterAttrs \cup {"form_field", "label_by", "template"}
               \cup Callables \cup Dunders

\* the list `attrs` of the factory: the recognized option names
RecognizedOptions ==
    {a \in ClassDir : a \notin Callables /\ a \notin Dunders /\ a \notin {"title", "field_name"}}

\* The call AutocompleteFilterFactory(title, field_name, **kwargs): the
\* exception raised if any, the keys its message names, the warnings
\* raised, and the class returned.
AutocompleteFilterFactory(title, field_name, kwargs) ==
    LET diff == DOMAIN kwargs \ RecognizedOptions
        base == [title |-> title, field_name |-> field_name]
        make(kw) == AutocompleteFilterMeta(AutocompleteFilter,
                        [k \in DOMAIN base \cup DOMAIN kw |->
                            IF k \in DOMAIN kw THEN kw[k] ELSE base[k]])
    IN IF "viewname" \in DOMAIN kwargs
       THEN LET kw == [k \in (DOMAIN kwargs \cup {"view_name"}) \ {"viewname"} |->
                          IF k \in DOMAIN kwargs THEN kwargs[k] ELSE kwargs["viewname"]]
            IN [exc |-> "None", message |-> {}, warned |-> 1,
                produced |-> TRUE, cls |-> make(kw)]
       ELSE IF diff # {}
       THEN [exc |-> "ValueError", message |-> diff, warned |-> 0,
             produced |-> FALSE, cls |-> AutocompleteFilter]
       ELSE [exc |-> "None", message |-> {}, warned |-> 0,
             produced |-> TRUE, cls |-> make(kwargs)]

-----------------------------------------------------------------------------
(* The admin page *)

NoInst == [active |-> FALSE]
PlainAdmin ==
    [hasMedia |-> FALSE, media |-> "inherited", admin_site |-> "site",
     Media |-> [js |-> <<>>, css |-> NoCss]]
NoRequest == [GET |-> {}]
NoDeclared == [merged |-> FALSE, js |-> {}, css |-> [m \in Mediums |-> {}]]

InitConfig ==
    /\ cls = AutocompleteFilter
    /\ result = [op |-> "import"]
    /\ warnings = 0
    /\ model_admin = PlainAdmin
    /\ inst = NoInst
    /\ request = NoRequest
    /\ params = {}
    /\ declared = NoDeclared

-----------------------------------------------------------------------------
(* Actions: class creation *)

\* class X(parent): <body>, with parent AutocompleteFilter or the class
\* created last
DefineSubclass(fromBase, choice) ==
    /\ inst = NoInst
    /\ cls' = AutocompleteFilterMeta(IF fromBase THEN AutocompleteFilter ELSE cls, Dict(choice))
    /\ result' = [op |-> "class"]
    /\ UNCHANGED <<warnings, model_admin, inst, request, params, declared>>

\* X = AutocompleteFilterFactory(title, field_name, **kwargs)
Factory(title, field_name, choice) ==
    LET r == AutocompleteFilterFactory(title, field_name, Dict(choice)) IN
    /\ inst = NoInst
    /\ warnings + r.warned <= MaxWarnings
    /\ warnings' = warnings + r.warned
    /\ cls' = IF r.produced THEN r.cls ELSE cls
    /\ result' = [op |-> "factory", title |-> title, field_name |-> field_name,
                  kwargs |-> Dict(choice), exc |-> r.exc, message |-> r.message,
                  warned |-> r.warned, produced |-> r.produced]
    /\ UNCHANGED <<model_admin, inst, request, params, declared>>

S_T == <<"T">>
S_q == <<"q">>
S_v == <<"v">>
S_w == <<"w">>

BodyChoices ==
    [field_name     : FieldNames \cup {Unset},
     multi_select   : {"unset", "True", "False"},
     use_pk_exact   : {"unset", "True", "False"},
     field_pk       : {Unset, S_id},
     parameter_name : {Unset, S_q},
     title          : {Unset, S_T}]

OptionChoices ==
    [multi_select   : {"unset", "True"},
     use_pk_exact   : {"unset", "False"},
     field_pk       : {Unset, S_id},
     parameter_name : {Unset, S_q}]

KwargChoices ==
    [viewname       : {Unset, S_v},
     view_name      : {Unset, S_w},
     bogus          : {Unset, S_v},
     multi_select   : {"unset", "True"}]

NextClasses ==
    \/ \E fromBase \in BOOLEAN, choice \in BodyChoices : DefineSubclass(fromBase, choice)
    \/ \E title \in {None, S_T}, field_name \in FieldNames, choice \in OptionChoices :
          Factory(title, field_name, choice)

NextFactory ==
    \E title \in {S_T}, field_name \in FieldNames, choice \in KwargChoices :
        Factory(title, field_name, choice)

SpecClasses == InitConfig /\ [][NextClasses]_vars
SpecFactory == InitConfig /\ [][NextFactory]_vars

-----------------------------------------------------------------------------
(* Claims about AutocompleteFilterFactory (SpecFactory) *)

Offending(kwargs) == (DOMAIN kwargs \ RecognizedOptions) \ {"viewname"}

\* C1: a factory call with an override name that is neither a recognized
\* option nor 'viewname' raises ValueError naming the offending keys and
\* produces no class, whatever else is passed (the alias included).
C1_UnrecognizedOverrideRaises ==
    (result.op = "factory" /\ Offending(result.kwargs) # {}) =>
        /\ result.exc = "ValueError"
        /\ Offending(result.kwargs) \subseteq result.message
        /\ ~result.produced

\* the same call with the key 'viewname' renamed to 'view_name'
Renamed(kwargs) ==
    [k \in (DOMAIN kwargs \cup {"view_name"}) \ {"viewname"} |->
        IF k = "view_name" THEN kwargs["viewname"] ELSE kwargs[k]]

\* C2: a factory call with viewname = v (and no view_name) produces the
\* class that the call with view_name = v and otherwise identical arguments
\* produces, carrying view_name = v and no viewname attribute, and raises
\* exactly one DeprecationWarning.
C2_AliasEquivalent ==
    (/\ result.op = "factory"
     /\ "viewname" \in DOMAIN result.kwargs
     /\ "view_name" \notin DOMAIN result.kwargs) =>
        LET other == AutocompleteFilterFactory(result.title, result.field_name,
                                               Renamed(result.kwargs))
        IN /\ result.produced
           /\ other.produced
           /\ cls = other.cls
           /\ cls.attrs.view_name = result.kwargs["viewname"]
           /\ "viewname" \notin DOMAIN cls.attrs
           /\ result.warned = 1

-----------------------------------------------------------------------------
(* Claims about the defaults the metaclass resolves (SpecClasses) *)

IsPath(c) == c.attrs.field_name # None
MultiHop(c) == IsPath(c) /\ Contains(c.attrs.field_name, LOOKUP_SEP)

\* the suffix the flags imply, as the claim words it
ImpliedSuffix(a) ==
    IF a.multi_select /\ a.use_pk_exact THEN LOOKUP_SEP \o a.field_pk \o LOOKUP_SEP \o S_in
    ELSE IF ~a.multi_select /\ a.use_pk_exact
         THEN LOOKUP_SEP \o a.field_pk \o LOOKUP_SEP \o S_exact
    ELSE IF a.multi_select THEN LOOKUP_SEP \o S_in
    ELSE <<>>

\* C3: a directly configured class (immediate subclass of AutocompleteFilter,
\* or factory product) with a path without '__' and no explicit
\* parameter_name resolves parameter_name to field_name plus the suffix its
\* flags imply.
C3_SingleHopParameterName ==
    (/\ cls.configured /\ cls.direct
     /\ IsPath(cls) /\ ~MultiHop(cls)
     /\ "parameter_name" \notin cls.explicit) =>
        cls.attrs.parameter_name = cls.attrs.field_name \o ImpliedSuffix(cls.attrs)

C3_Witness ==
    /\ cls.configured /\ cls.direct
    /\ cls.attrs.field_name = Path(0)
    /\ cls.attrs.multi_select /\ ~cls.attrs.use_pk_exact /\ cls.attrs.field_pk = S_id
    /\ "parameter_name" \notin cls.explicit
    /\ cls.attrs.parameter_name = Path(0) \o LOOKUP_SEP \o S_in

\* C4: every class with a multi-hop path and no explicit parameter_name
\* resolves parameter_name to the path itself.
C4_MultiHopParameterName ==
    (cls.configured /\ MultiHop(cls) /\ "parameter_name" \notin cls.explicit) =>
        cls.attrs.parameter_name = cls.attrs.field_name

\* C10: every class none of whose bodies sets parameter_name (title) has the
\* parameter_name (title) computed from its own field path and flags,
\* subclasses of configured classes included.
C10_DefaultsFromOwnConfiguration ==
    (cls.configured /\ IsPath(cls)) =>
        /\ "parameter_name" \notin cls.explicit =>
               cls.attrs.parameter_name =
                   get_parameter_name([cls.attrs EXCEPT !.parameter_name = None])
        /\ "title" \notin cls.explicit =>
               cls.attrs.title = get_title([cls.attrs EXCEPT !.title = None])

-----------------------------------------------------------------------------
(* django.forms.widgets.Media, as _add_media uses it *)

Range(s) == {s[i] : i \in 1..Len(s)}

\* the items of s in first-seen order (an OrderedSet filled from s)
Dedup(s) ==
    LET RECURSIVE dd(_, _)
        dd(i, acc) == IF i > Len(s) THEN acc
                      ELSE dd(i + 1, IF s[i] \in Range(acc) THEN acc ELSE Append(acc, s[i]))
    IN dd(1, <<>>)

\* Media.merge(*lists): every item once, ordered by a stable topological
\* sort of "comes after its predecessor in some list"; on an order
\* conflict the first-seen order
MediaMerge(lists) ==
    LET all_items == Dedup(Concat(lists))
        deps(x) == {lists[p[1]][p[2] - 1] : p \in
                       {q \in (1..Len(lists)) \X (2..Len(Concat(lists))) :
                           /\ q[2] <= Len(lists[q[1]])
                           /\ lists[q[1]][q[2]] = x
                           /\ lists[q[1]][q[2] - 1] # x}}
        RECURSIVE sort(_, _)
        sort(done, todo) ==
            IF todo = {} THEN done
            ELSE LET current == {n \in todo : deps(n) \subseteq Range(done)}
                 IN IF current = {} THEN all_items
                    ELSE sort(done \o SelectSeq(all_items, LAMBDA n : n \in current),
                              todo \ current)
    IN sort(<<>>, Range(all_items))

\* Media(media=definition)
MediaOf(definition) == [js_lists |-> <<definition.js>>, css_lists |-> <<definition.css>>]

\* Media.__add__: the other's lists that are non-empty and not already held
MediaAdd(a, b) ==
    [js_lists  |-> a.js_lists \o SelectSeq(b.js_lists,
                       LAMBDA l : l # <<>> /\ l \notin Range(a.js_lists)),
     css_lists |-> a.css_lists \o SelectSeq(b.css_lists,
                       LAMBDA d : d # NoCss /\ d \notin Range(a.css_lists))]

\* Media._js and Media._css
Media_js(m) == MediaMerge(m.js_lists)
Media_css(m) ==
    [med \in Mediums |-> MediaMerge([i \in 1..Len(m.css_lists) |-> m.css_lists[i][med]])]

\* the media of the stock autocomplete widgets, and of a custom form_widget
AutocompleteMixinMedia ==
    [js  |-> <<"admin/js/vendor/jquery/jquery.js", "admin/js/vendor/select2/select2.full.js",
               "admin/js/jquery.init.js", "admin/js/autocomplete.js">>,
     css |-> [NoCss EXCEPT !["screen"] =
                 <<"admin/css/vendor/select2/select2.css", "admin/css/autocomplete.css">>]]
S_CustomWidget == <<"CustomWidget">>
CustomWidgetMedia ==
    [js  |-> <<"django-admin-autocomplete-filter/js/autocomplete_filter_qs.js",
               "admin/js/jquery.init.js", "custom.js">>,
     css |-> [NoCss EXCEPT !["screen"] = <<"admin/css/autocomplete.css", "custom.css">>]]

-----------------------------------------------------------------------------
(* AutocompleteFilter.__init__ and the methods it calls *)

\* A faulty variant: check_field_name that only looks for None
check_field_name_none_only(c) ==
    IF c.field_name = None THEN "ImproperlyConfigured" ELSE "None"

\* check_field_name: the exception it raises ("None": it returns)
check_field_name(c) ==
    IF c.field_name = None \/ c.field_name = <<>> THEN "ImproperlyConfigured" ELSE "None"

\* The schema behind model._meta.get_field: model n has the one relation
\* field Hops[n], leading to model n + 1; 0 stands for FieldDoesNotExist.
RootModel == 1
related_model(model, name) ==
    IF model \in 1..Len(Hops) /\ Hops[model] = name THEN model + 1 ELSE 0

\* get_rel_model: the model the last name of the path belongs to
get_rel_model(c, model) ==
    LET names == Split(c.field_name, LOOKUP_SEP)
        RECURSIVE walk(_, _)
        walk(i, m) == IF i >= Len(names) \/ m = 0 THEN m
                      ELSE walk(i + 1, related_model(m, names[i]))
    IN walk(1, model)

\* get_form_widget
get_form_widget(c) ==
    IF c.form_widget # None THEN c.form_widget
    ELSE IF c.multi_select THEN <<"AutocompleteSelectMultiple">>
    ELSE <<"AutocompleteSelect">>

\* get_autocomplete_url: reverse(view_name), or None
get_autocomplete_url(c) ==
    IF c.view_name # None THEN <<"/">> \o c.view_name \o <<"/">> ELSE None

\* get_widget: the widget object, with the media its class declares
get_widget(c) ==
    [class      |-> get_form_widget(c),
     custom_url |-> get_autocomplete_url(c),
     media      |-> MediaOf(IF get_form_widget(c) = S_CustomWidget
                            THEN CustomWidgetMedia ELSE AutocompleteMixinMedia)]

\* get_form_field
get_form_field(c) ==
    IF c.multi_select THEN "ModelMultipleChoiceField" ELSE "ModelChoiceField"

\* A faulty variant: _add_media that appends the other sources' lists to the page's
add_media_appending(admin, widget, c) ==
    LET created == IF ~admin.hasMedia
                   THEN [admin EXCEPT !.hasMedia = TRUE, !.media = "own",
                                      !.Media = [js |-> <<>>, css |-> NoCss]]
                   ELSE admin
        others == widget.media.js_lists \o <<AutocompleteFilterMedia.js, c.Media.js>>
        styles == widget.media.css_lists \o <<AutocompleteFilterMedia.css, c.Media.css>>
    IN [created EXCEPT !.Media =
           [css |-> [m \in Mediums |->
                        created.Media.css[m] \o Concat([i \in 1..Len(styles) |-> styles[i][m]])],
            js  |-> created.Media.js \o Concat(others)]]

\* _add_media: the ModelAdmin class after the merge
add_media(admin, widget, c) ==
    LET created == IF ~admin.hasMedia
                   THEN [admin EXCEPT !.hasMedia = TRUE, !.media = "own",
                                      !.Media = [js |-> <<>>, css |-> NoCss]]
                   ELSE admin
        media == MediaAdd(MediaAdd(MediaAdd(MediaOf(created.Media), widget.media),
                                   MediaOf(AutocompleteFilterMedia)),
                          MediaOf(c.Media))
    IN [created EXCEPT !.Media = [css |-> Media_css(media), js |-> Media_js(media)]]

\* A faulty variant: get_attrs writing into the class's own dict
get_attrs_in_place(c) ==
    LET attrs0 == {kv \in c.widget_attrs : kv[1] # "id"}
                     \cup {<<"id", <<"id-">> \o c.parameter_name \o <<"-daaf-filter">>>>}
        attrs  == IF c.is_placeholder_title
                  THEN {kv \in attrs0 : kv[1] # "data-Placeholder"}
                          \cup {<<"data-Placeholder", c.title>>}
                  ELSE attrs0
    IN [attrs |-> attrs, widget_attrs |-> attrs]

\* get_attrs: the attrs it returns, and the class's widget_attrs afterwards
get_attrs(c) ==
    LET attrs0 == {kv \in c.widget_attrs : kv[1] # "id"}
                     \cup {<<"id", <<"id-">> \o c.parameter_name \o <<"-daaf-filter">>>>}
        attrs  == IF c.is_placeholder_title
                  THEN {kv \in attrs0 : kv[1] # "data-Placeholder"}
                          \cup {<<"data-Placeholder", c.title>>}
                  ELSE attrs0
    IN [attrs |-> attrs, widget_attrs |-> c.widget_attrs]

\* django.contrib.admin.utils.prepare_lookup_value(key, value): a list for
\* an '__in' key, a flag for an '__isnull' key, else the value
S_True == <<"True">>
S_False == <<"False">>
prepare_lookup_value(key, value) ==
    IF EndsWith(key, LOOKUP_SEP \o S_in)
    THEN [kind |-> "list", v |-> Split(value, <<",">>)]
    ELSE IF EndsWith(key, LOOKUP_SEP \o S_isnull)
    THEN [kind |-> "bool",
          v |-> <<IF [i \in 1..Len(value) |-> Lower(value[i])]
                        \in {<<>>, <<"f", "a", "l", "s", "e">>, <<"0">>}
                  THEN S_False ELSE S_True>>]
    ELSE [kind |-> "str", v |-> <<value>>]

\* dict.get(key, default) on a dict held as a set of key/value pairs
Get(dict, key, default) ==
    IF \E kv \in dict : kv[1] = key THEN (CHOOSE kv \in dict : kv[1] = key)[2] ELSE default

\* prepare_value
prepare_value(c, used_parameters) ==
    prepare_lookup_value(get_query_parameter(c), Get(used_parameters, c.parameter_name, <<>>))

\* render_widget: what field.widget.render is called with
render_widget(c, used_parameters, attrs) ==
    [name |-> c.parameter_name, value |-> prepare_value(c, used_parameters), attrs |-> attrs]

\* A faulty variant: queryset keyed by parameter_name, the name value() reads
queryset_by_parameter_name(c, used_parameters, queryset) ==
    LET value == Get(used_parameters, c.parameter_name, None) IN
    IF value # None /\ value # <<>>
    THEN Append(queryset, [key |-> c.parameter_name,
                           operand |-> prepare_lookup_value(c.parameter_name, value)])
    ELSE queryset

\* A faulty variant: queryset that filters whenever the parameter was submitted
queryset_if_submitted(c, used_parameters, queryset) ==
    LET value == Get(used_parameters, c.parameter_name, None) IN
    IF value # None
    THEN Append(queryset, [key |-> get_query_parameter(c),
                           operand |-> prepare_lookup_value(get_query_parameter(c), value)])
    ELSE queryset

\* queryset: the queryset it returns, a queryset being the sequence of the
\* lookups applied to it; value() is used_parameters.get(parameter_name)
queryset(c, used_parameters, given) ==
    LET value == Get(used_parameters, c.parameter_name, None) IN
    IF value # None /\ value # <<>>
    THEN Append(given, [key |-> get_query_parameter(c),
                        operand |-> prepare_lookup_value(get_query_parameter(c), value)])
    ELSE given

-----------------------------------------------------------------------------
(* Actions: a changelist request *)

S_o == <<"o">>
S_1 == <<"1">>
S_1_2 == <<"1", ",", "2">>

\* the ModelAdmin classes a page may be written as
PageAdmins ==
    {PlainAdmin} \cup
    {[PlainAdmin EXCEPT !.hasMedia = TRUE, !.media = "own", !.Media = m] : m \in
        {[js |-> <<"page.js">>, css |-> NoCss],
         [js  |-> <<"page.js", "django-admin-autocomplete-filter/js/autocomplete_filter_qs.js",
                    "page.js", "admin/js/jquery.init.js">>,
          css |-> [NoCss EXCEPT !["screen"] =
                      <<"page.css", "admin/css/autocomplete.css", "page.css">>]]}}

InitRequest ==
    /\ cls = AutocompleteFilter
    /\ result = [op |-> "import"]
    /\ warnings = 0
    /\ model_admin \in PageAdmins
    /\ inst = NoInst
    /\ request = NoRequest
    /\ params = {}
    /\ declared = NoDeclared

\* the filter classes a page may list: immediate subclasses of
\* AutocompleteFilter, and subclasses of those
LookupBodies ==
    [field_name     : FieldNames \cup {Hops[2]},
     multi_select   : {"unset", "True"},
     use_pk_exact   : {"unset", "False"},
     parameter_name : {Unset, S_q}]
AssetBodies ==
    [field_name           : {Path(0)},
     Media                : {"unset", "own"},
     form_widget          : {Unset, S_CustomWidget},
     widget_attrs         : {"unset", "custom"},
     is_placeholder_title : {"unset", "True"},
     rel_model            : {Unset, S_o}]
ChildBodies ==
    [field_name   : {Unset, Path(MaxHops)},
     multi_select : {"unset", "True"}]
ParentClasses ==
    {AutocompleteFilterMeta(AutocompleteFilter, Dict(b)) : b \in LookupBodies \cup AssetBodies}
PageFilters ==
    ParentClasses \cup
    {AutocompleteFilterMeta(parent, Dict(b)) :
        parent \in {AutocompleteFilterMeta(AutocompleteFilter, Dict(b0)) :
                       b0 \in {b1 \in LookupBodies : b1.field_name = Path(0)}},
        b \in ChildBodies}

\* the GET parameters a request may carry for filter class c
Queries(c) ==
    {{}, {<<S_o, S_1>>},
     {<<c.attrs.parameter_name, <<>>>>},
     {<<c.attrs.parameter_name, S_1>>, <<S_o, S_1>>},
     {<<c.attrs.parameter_name, S_1_2>>}}

\* A request arrives: the changelist copies GET into its lookup parameters
\* and takes filter class c from list_filter.
Request(c, get) ==
    /\ result.op \in {"import", "response"}
    /\ cls' = c
    /\ request' = [GET |-> get]
    /\ params' = get
    /\ result' = [op |-> "request"]
    /\ UNCHANGED <<warnings, model_admin, inst, declared>>

\* the asset paths a Media definition declares
Paths(definition) ==
    [js |-> Range(definition.js), css |-> [m \in Mediums |-> Range(definition.css[m])]]

\* AutocompleteFilter.__init__(request, params, model, model_admin)
Construct ==
    LET c == cls.attrs
        checked == check_field_name(c)
        warned == IF "rel_model" \in DOMAIN c THEN 1 ELSE 0
        \* SimpleListFilter.__init__
        unnamed == c.title = None \/ c.parameter_name = None
        used_parameters == {kv \in params : kv[1] = c.parameter_name}
        rel_model == get_rel_model(c, RootModel)
        remote_field == related_model(rel_model, get_ultimate_field_name(c))
        widget == get_widget(c)
        field == [class |-> get_form_field(c), widget |-> widget.class, required |-> FALSE]
        attrs == get_attrs(c)
        sources == {Paths(model_admin.Media), Paths(AutocompleteFilterMedia), Paths(c.Media),
                    Paths(IF widget.class = S_CustomWidget
                          THEN CustomWidgetMedia ELSE AutocompleteMixinMedia)}
    IN
    /\ result.op = "request"
    /\ IF checked # "None"
       THEN /\ result' = [op |-> "__init__", exc |-> checked]
            /\ UNCHANGED <<cls, warnings, model_admin, inst, request, params, declared>>
       ELSE /\ warnings + warned <= MaxWarnings
            /\ warnings' = warnings + warned
            /\ IF unnamed
               THEN /\ result' = [op |-> "__init__", exc |-> "ImproperlyConfigured"]
                    /\ UNCHANGED <<cls, model_admin, inst, request, params, declared>>
               ELSE /\ params' = params \ used_parameters
                    /\ IF remote_field = 0
                       THEN /\ result' = [op |-> "__init__", exc |-> "FieldDoesNotExist"]
                            /\ UNCHANGED <<cls, model_admin, inst, request, declared>>
                       ELSE /\ result' = [op |-> "__init__", exc |-> "None"]
                            /\ model_admin' = add_media(model_admin, widget, c)
                            /\ cls' = [cls EXCEPT !.attrs.widget_attrs = attrs.widget_attrs]
                            /\ inst' = [active          |-> TRUE,
                                        used_parameters |-> used_parameters,
                                        field           |-> field,
                                        custom_url      |-> widget.custom_url,
                                        rendered_widget |->
                                            render_widget(c, used_parameters, attrs.attrs)]
                            /\ declared' =
                                  [merged |-> TRUE,
                                   js     |-> declared.js \cup UNION {p.js : p \in sources},
                                   css    |-> [m \in Mediums |-> declared.css[m] \cup
                                                  UNION {p.css[m] : p \in sources}]]
                            /\ UNCHANGED request

\* the changelist passes its queryset through the filter
ApplyQueryset(given) ==
    /\ inst # NoInst
    /\ result.op = "__init__"
    /\ result' = [op |-> "queryset", given |-> given,
                  returned |-> queryset(cls.attrs, inst.used_parameters, given)]
    /\ UNCHANGED <<cls, warnings, model_admin, inst, request, params, declared>>

\* the response is sent; the instance is discarded
EndRequest ==
    /\ result.op \in {"__init__", "queryset"}
    /\ inst' = NoInst
    /\ request' = NoRequest
    /\ params' = {}
    /\ cls' = AutocompleteFilter
    /\ result' = [op |-> "response"]
    /\ UNCHANGED <<warnings, model_admin, declared>>

Querysets == {<<[key |-> S_o, operand |-> [kind |-> "str", v |-> <<S_1>>]]>>}

NextRequest ==
    \/ \E c \in PageFilters : \E get \in Queries(c) : Request(c, get)
    \/ Construct
    \/ \E given \in Querysets : ApplyQueryset(given)
    \/ EndRequest

SpecRequest == InitRequest /\ [][NextRequest]_vars

-----------------------------------------------------------------------------
(* Claims about a request (SpecRequest) *)

\* the value the request carries under the filter's parameter_name
Submitted == Get(request.GET, cls.attrs.parameter_name, None)

\* C5, as stated: with a non-empty value submitted, queryset applies exactly
\* one lookup, keyed by the resolved parameter_name, with the submitted value
\* as operand.
C5_LookupKeyedByParameterName ==
    (result.op = "queryset" /\ Submitted \notin {None, <<>>}) =>
        result.returned =
            Append(result.given, [key     |-> cls.attrs.parameter_name,
                                  operand |-> [kind |-> "str", v |-> <<Submitted>>]])

\* the operand of a lookup under `key` for a submitted string
LookupOperand(key, value) ==
    IF EndsWith(key, <<"_", "_", "i", "n">>)
    THEN [kind |-> "list", v |-> Split(value, <<",">>)]
    ELSE IF EndsWith(key, <<"_", "_", "i", "s", "n", "u", "l", "l">>)
    THEN [kind |-> "bool",
          v |-> <<IF [i \in 1..Len(value) |-> Lower(value[i])]
                        \in {<<"0">>, <<"f", "a", "l", "s", "e">>}
                  THEN S_False ELSE S_True>>]
    ELSE [kind |-> "str", v |-> <<value>>]

\* C5, amended: with a non-empty value submitted under parameter_name,
\* queryset applies exactly one lookup; its key is the class's field_name
\* plus the suffix its flags imply (not parameter_name), and its operand is
\* the value split at commas for an '__in' key, a flag for an '__isnull'
\* key, and the value itself otherwise.
C5_LookupKeyedByQueryParameter ==
    (result.op = "queryset" /\ Submitted \notin {None, <<>>}) =>
        LET key == cls.attrs.field_name \o ImpliedSuffix(cls.attrs)
        IN result.returned =
               Append(result.given, [key |-> key, operand |-> LookupOperand(key, Submitted)])

C5_Witness ==
    /\ result.op = "queryset"
    /\ MultiHop(cls) /\ cls.attrs.multi_select /\ cls.attrs.parameter_name = S_q
    /\ Submitted = S_1_2
    /\ Len(result.returned) = Len(result.given) + 1
    /\ result.returned[Len(result.returned)].operand.v = <<S_1, <<"2">>>>

\* C6: with no value or an empty value under parameter_name, queryset
\* returns the queryset it was given.
C6_NoValueNoLookup ==
    (result.op = "queryset" /\ Submitted \in {None, <<>>}) =>
        result.returned = result.given

C6_Witness ==
    /\ result.op = "queryset"
    /\ <<cls.attrs.parameter_name, <<>>>> \in request.GET
    /\ cls.attrs.multi_select
    /\ result.returned = result.given

\* C7: __init__ on a class whose field_name is None or '' raises
\* ImproperlyConfigured before anything else happens: no lookup parameter
\* is popped, no widget is rendered, the page's Media is untouched.
C7_MissingFieldNameFailsFirst ==
    [][(/\ result.op = "request" /\ result'.op = "__init__"
        /\ cls.attrs.field_name \in {None, <<>>}) =>
           /\ result'.exc = "ImproperlyConfigured"
           /\ params' = params
           /\ inst' = NoInst
           /\ model_admin' = model_admin
           /\ warnings' = warnings]_vars

C7_Witness ==
    /\ result.op = "__init__" /\ result.exc = "ImproperlyConfigured"
    /\ cls.attrs.field_name = <<>>
    /\ <<cls.attrs.parameter_name, S_1>> \in params
    /\ inst = NoInst

NoDuplicate(s) == Cardinality(Range(s)) = Len(s)

RequestStep ==
    result.op \in {"request", "__init__"} /\ result'.op \in {"__init__", "queryset"}

\* C9, as stated: handling a request changes neither the filter class nor
\* the ModelAdmin class.
C9_RequestMutatesNothing ==
    [][RequestStep => (cls' = cls /\ model_admin' = model_admin)]_vars

\* C9, amended: handling a request leaves the filter class's attributes
\* (widget_attrs included) unchanged, and of the ModelAdmin class it writes
\* only the asset declaration (Media, created if missing together with the
\* media property).
C9_RequestWritesOnlyPageMedia ==
    [][RequestStep =>
          /\ cls' = cls
          /\ [model_admin' EXCEPT !.Media = model_admin.Media,
                                   !.hasMedia = model_admin.hasMedia,
                                   !.media = model_admin.media] = model_admin]_vars

C9_Witness ==
    /\ result.op = "__init__" /\ inst # NoInst
    /\ cls.attrs.widget_attrs = {<<"class", <<"x">>>>}
    /\ cls.attrs.is_placeholder_title
    /\ Cardinality(inst.rendered_widget.attrs) = 3
    /\ model_admin.hasMedia /\ model_admin.media = "own"
    /\ Len(model_admin.Media.js) > 4

====
